---------------------------- MODULE Spec2Model ----------------------------
(***************************************************************************)
(* A model of git-review's hook manager (src/git-review/hook.go):          *)
(* installHook, repoRoot, hookInvoke and hookCommitMsg, acting on a file   *)
(* system.                                                                 *)
(*                                                                         *)
(* Strings are sequences.  A path, and the bytes of a commit message, are  *)
(* sequences of one-character strings; the names ".git", "hooks" and       *)
(* "commit-msg" and the lines of the two hook scripts are kept as single   *)
(* elements, since the code only compares them as wholes.                  *)
(*                                                                         *)
(* The file system is the part of the state the program acts on: the set   *)
(* of existing `.git` directories and a map from the paths of the existing *)
(* files to their content and mode.  File-system calls succeed whenever    *)
(* the file-system state allows them (a read fails only on a missing file, *)
(* the hooks directory of a repository exists and is writable, the random  *)
(* source delivers), and the process umask is 0.                           *)
(***************************************************************************)
EXTENDS Integers, Sequences, FiniteSets, TLC

VARIABLES
    goos,     \* runtime.GOOS of the build: "linux" or "windows"
    cwd,      \* the working directory os.Getwd reports
    gitDirs,  \* the paths of the existing `.git` directories
    files,    \* the existing files: path -> [data, mode]
    pc,       \* "idle", or the place installHook has reached
    verbose,  \* the value of the -v flag of the running installHook
    hookIdx,  \* installHook's position in hookFiles
    dir,      \* repoRoot's dir
    rootlen,  \* repoRoot's rootlen
    io,       \* the file-system calls the running invocation has made
    pre,      \* the files when the running invocation began
    last      \* the invocation that finished last (n: the parity of the
              \* number of finished invocations)

vars == <<goos, cwd, gitDirs, files, pc, verbose, hookIdx, dir, rootlen, io,
          pre, last>>

(***************************************************************************)
(* Bounds of the model.                                                    *)
(***************************************************************************)
\* the deepest working directory below the filesystem root
MaxDepth == 2
\* the number of pieces an initial commit message is made of
MaxPieces == 3

(***************************************************************************)
(* Paths: path/filepath as the code uses it.                               *)
(***************************************************************************)
Separator == IF goos = "windows" THEN "\\" ELSE "/"

IsPathSeparator(c) == c = "/" \/ (goos = "windows" /\ c = "\\")

\* filepath.VolumeName: a drive letter and a colon on windows, else empty
VolumeName(path) ==
    IF goos = "windows" /\ Len(path) >= 2 /\ path[2] = ":"
    THEN SubSeq(path, 1, 2)
    ELSE <<>>

\* separators normalised to Separator, runs of separators collapsed
RECURSIVE CollapseSeps(_, _)
CollapseSeps(p, acc) ==
    IF p = <<>> THEN acc
    ELSE IF IsPathSeparator(Head(p))
    THEN IF acc # <<>> /\ acc[Len(acc)] = Separator
         THEN CollapseSeps(Tail(p), acc)
         ELSE CollapseSeps(Tail(p), Append(acc, Separator))
    ELSE CollapseSeps(Tail(p), Append(acc, Head(p)))

\* filepath.Clean on paths without "." and ".." elements
Clean(path) ==
    LET vol == VolumeName(path)
        r == CollapseSeps(SubSeq(path, Len(vol) + 1, Len(path)), <<>>)
        s == IF Len(r) > 1 /\ r[Len(r)] = Separator
             THEN SubSeq(r, 1, Len(r) - 1)
             ELSE r
    IN  IF s = <<>> THEN vol \o <<".">> ELSE vol \o s

\* the index of the last separator of path after the volume, or Len(vol)
RECURSIVE LastSep(_, _, _)
LastSep(path, vol, i) ==
    IF i >= Len(vol) + 1 /\ ~IsPathSeparator(path[i])
    THEN LastSep(path, vol, i - 1)
    ELSE i

\* filepath.Dir
Dir(path) ==
    LET vol == VolumeName(path)
        i == LastSep(path, vol, Len(path))
        d == Clean(SubSeq(path, Len(vol) + 1, i))
    IN  IF d = <<".">> /\ Len(vol) > 2 THEN vol ELSE vol \o d

\* filepath.Join of two elements
Join(a, b) ==
    IF a = <<>> THEN Clean(b)
    ELSE IF b = <<>> THEN Clean(a)
    ELSE Clean(a \o <<Separator>> \o b)

(***************************************************************************)
(* The hook registry and the two scripts.                                  *)
(***************************************************************************)
hookPath == <<".git", "/", "hooks", "/">>

hookFiles == <<"commit-msg">>

hookScript == <<"#!/bin/sh\n", "exec git-review hook-invoke ", "%s", " \"$@\"\n">>

\* fmt.Sprintf with one %s verb
Sprintf(format, arg) ==
    [i \in DOMAIN format |-> IF format[i] = "%s" THEN arg ELSE format[i]]

\* the old Gerrit shell hook, line by line (its 105 lines abridged to the
\* first lines, the call of add_ChangeId and the last line)
oldCommitMsgHook ==
    << "#!/bin/sh\n",
       "# From Gerrit Code Review 2.2.1\n",
       "#\n",
       "CHANGE_ID_AFTER=\"Bug|Issue\"\n",
       "MSG=\"$1\"\n",
       "\n",
       "\n",
       "add_ChangeId\n" >>

\* the permission bits installHook gives a hook it writes: 0700
HookMode == 448

\* the permission bits hookCommitMsg passes to WriteFile: 0666
MsgMode == 438

(***************************************************************************)
(* The file system.                                                        *)
(***************************************************************************)
Exists(fs, p) == p \in DOMAIN fs

\* os.Remove of an existing file
Remove(fs, p) == [q \in DOMAIN fs \ {p} |-> fs[q]]

\* ioutil.WriteFile: creates the file with mode perm, or truncates an
\* existing file and keeps its mode
WriteFile(fs, p, data, perm) ==
    [q \in DOMAIN fs \cup {p} |->
        IF q = p
        THEN [data |-> data, mode |-> IF Exists(fs, p) THEN fs[p].mode ELSE perm]
        ELSE fs[q]]

Ev(kind, p) == [k |-> kind, p |-> p]


(***************************************************************************)
(* repoRoot (called once per hook file by installHook).                    *)
(***************************************************************************)
\* RootLen without the volume name of a windows path
RootLenNoVolume(d) == 1

\* rootlen as repoRoot computes it from the working directory
RootLen(d) == 1 + (IF goos = "windows" THEN Len(VolumeName(d)) ELSE 0)

\* os.Stat(filepath.Join(dir, ".git")) succeeds
HasGit(d) == Join(d, <<".git">>) \in gitDirs

\* the test that ends the upward walk: dir is the filesystem root
AtRoot(d, rl) == Len(d) = rl /\ d[rl] = Separator

\* Parent moving two directories up
ParentTwice(d) == Dir(Dir(d))

\* the step that moves the walk one directory up
Parent(d) == Dir(d)

(***************************************************************************)
(* installHook.                                                            *)
(***************************************************************************)
\* the path of a hook file below the repository root
HookFilename(root, hookFile) == Join(root, hookPath \o <<hookFile>>)

\* the content installHook writes for a hook
HookContent(hookFile) == Sprintf(hookScript, hookFile)

\* IsOldHook comparing only the beginning of the file with the old hook
IsOldHookPrefix(fs, filename) ==
    /\ Exists(fs, filename)
    /\ Len(fs[filename].data) >= Len(oldCommitMsgHook)
    /\ SubSeq(fs[filename].data, 1, Len(oldCommitMsgHook)) = oldCommitMsgHook

\* the test that decides whether the file read is the old hook
IsOldHook(fs, filename) ==
    Exists(fs, filename) /\ fs[filename].data = oldCommitMsgHook

\* Migrate reading the file and leaving it in place
MigrateKeep(fs, filename, hookFile) ==
    [fs |-> fs, io |-> <<Ev("read", filename)>>]

\* the special case for commit-msg: remove the old shell script
Migrate(fs, filename, hookFile) ==
    IF hookFile = "commit-msg"
    THEN [fs |-> IF IsOldHook(fs, filename) THEN Remove(fs, filename) ELSE fs,
          io |-> <<Ev("read", filename)>>
                 \o (IF IsOldHook(fs, filename)
                     THEN <<Ev("remove", filename)>> ELSE <<>>)]
    ELSE [fs |-> fs, io |-> <<>>]

\* InstallFile writing the hook whether or not the file exists
InstallFileAlways(fs, filename, hookFile, v) ==
    [fs |-> WriteFile(fs, filename, HookContent(hookFile), HookMode),
     io |-> <<Ev("stat", filename), Ev("write", filename)>>]

\* an existing hook file is assumed to be okay and is only read (when
\* verbose); a missing one is written with mode 0700
InstallFile(fs, filename, hookFile, v) ==
    IF Exists(fs, filename)
    THEN [fs |-> fs,
          io |-> <<Ev("stat", filename)>>
                 \o (IF v > 0 THEN <<Ev("read", filename)>> ELSE <<>>)]
    ELSE [fs |-> WriteFile(fs, filename, HookContent(hookFile), HookMode),
          io |-> <<Ev("stat", filename), Ev("write", filename)>>]

\* one iteration of installHook's loop, after repoRoot has returned root
InstallOne(fs, root, hookFile, v) ==
    LET filename == HookFilename(root, hookFile)
        m == Migrate(fs, filename, hookFile)
        w == InstallFile(m.fs, filename, hookFile, v)
    IN  [fs |-> w.fs, io |-> m.io \o w.io]


(***************************************************************************)
(* hookCommitMsg and hookInvoke.                                           *)
(***************************************************************************)
ChangeIdKey == <<"C", "h", "a", "n", "g", "e", "-", "I", "d", ":", " ">>

\* the bytes hookCommitMsg searches for: "\nChange-Id: "
NlChangeId == <<"\n">> \o ChangeIdKey

\* bytes.Contains at position i or later
RECURSIVE ContainsFrom(_, _, _)
ContainsFrom(data, sub, i) ==
    IF i + Len(sub) - 1 > Len(data) THEN FALSE
    ELSE IF SubSeq(data, i, i + Len(sub) - 1) = sub THEN TRUE
    ELSE ContainsFrom(data, sub, i + 1)

\* bytes.Contains
Contains(data, sub) == ContainsFrom(data, sub, 1)

\* HasChangeId looking only at the beginning of the message
HasChangeIdPrefix(data) ==
    /\ Len(data) >= Len(NlChangeId)
    /\ SubSeq(data, 1, Len(NlChangeId)) = NlChangeId

\* HasChangeId asking for the "I" that begins a generated identifier
HasChangeIdValid(data) == Contains(data, NlChangeId \o <<"I">>)

\* the test that makes hookCommitMsg return without writing
HasChangeId(data) == Contains(data, NlChangeId)

\* TrimLen keeping the trailing newlines
TrimLenNone(data, n) == n

\* the loop that drops the trailing newlines: the n it ends with
RECURSIVE TrimLen(_, _)
TrimLen(data, n) ==
    IF n > 0 /\ data[n] = "\n" THEN TrimLen(data, n - 1) ELSE n

\* the number of random bytes of a Change-Id
IdLen == 20

HexDigits == <<"0", "1", "2", "3", "4", "5", "6", "7",
               "8", "9", "a", "b", "c", "d", "e", "f">>

\* the %x verb applied to a byte slice: two lowercase digits per byte
RECURSIVE Hex(_)
Hex(bytes) ==
    IF bytes = <<>> THEN <<>>
    ELSE <<HexDigits[(Head(bytes) \div 16) + 1], HexDigits[(Head(bytes) % 16) + 1]>>
         \o Hex(Tail(bytes))

\* fmt.Sprintf("\n\nChange-Id: I%x\n", id[:])
Trailer(id) == <<"\n", "\n">> \o ChangeIdKey \o <<"I">> \o Hex(id) \o <<"\n">>

\* the message hookCommitMsg writes back
WithChangeId(data, id) == SubSeq(data, 1, TrimLen(data, Len(data))) \o Trailer(id)

\* hookCommitMsg(args) with id the bytes the random source delivers:
\* the files afterwards, the outcome and the file-system calls made
hookCommitMsg(fs, args, id) ==
    IF Len(args) # 1
    THEN [fs |-> fs, out |-> "fatal", io |-> <<>>]
    ELSE LET file == args[1] IN
         IF ~Exists(fs, file)
         THEN [fs |-> fs, out |-> "fatal", io |-> <<Ev("read", file)>>]
         ELSE IF HasChangeId(fs[file].data)
         THEN [fs |-> fs, out |-> "ok", io |-> <<Ev("read", file)>>]
         ELSE [fs |-> WriteFile(fs, file, WithChangeId(fs[file].data, id), MsgMode),
               out |-> "ok",
               io |-> <<Ev("read", file), Ev("rand", file), Ev("write", file)>>]

\* IsKnownHook taking every name for commit-msg
IsKnownHookAny(name) == TRUE

\* the hook names hookInvoke's switch knows
IsKnownHook(name) == name = "commit-msg"

\* hookInvoke(args)
hookInvoke(fs, args, id) ==
    IF Len(args) = 0
    THEN [fs |-> fs, out |-> "fatal", io |-> <<>>]
    ELSE IF IsKnownHook(args[1])
    THEN hookCommitMsg(fs, Tail(args), id)
    ELSE [fs |-> fs, out |-> "ok", io |-> <<>>]


(***************************************************************************)
(* The inputs: working directories, repositories, hook files, commit       *)
(* messages, arguments and random bytes.                                   *)
(***************************************************************************)
LevelName == <<"a", "b", "c", "d", "e", "f", "g", "h">>

\* the filesystem root: "/" or "c:\"
FsRoot == (IF goos = "windows" THEN <<"c", ":">> ELSE <<>>) \o <<Separator>>

\* the directory d levels below the filesystem root, as os.Getwd reports
\* it: "/", "/a", "/a/b", ...
PathAt(d) ==
    IF d = 0 THEN FsRoot
    ELSE SubSeq(FsRoot, 1, Len(FsRoot) - 1)
         \o [i \in 1..(2 * d) |-> IF i % 2 = 1 THEN Separator
                                  ELSE LevelName[i \div 2]]

Max(S) == CHOOSE x \in S : \A y \in S : y <= x

\* hook files found in repositories: the old hook, the old hook changed by
\* one byte (trailing whitespace, a trailing newline, a missing last line),
\* the dispatcher itself, an empty file and a user's own hook
InitialHooks ==
    { oldCommitMsgHook,
      oldCommitMsgHook \o <<" ">>,
      oldCommitMsgHook \o <<"\n">>,
      SubSeq(oldCommitMsgHook, 1, Len(oldCommitMsgHook) - 1),
      HookContent("commit-msg"),
      <<>>,
      <<"#!/bin/sh\n", "exit 0\n">> }

\* the pieces commit messages are made of
Pieces ==
    { <<"\n">>,
      <<"x">>,
      <<"x", "\n">>,
      ChangeIdKey \o <<"a", "b", "c", "\n">>,
      SubSeq(ChangeIdKey, 1, Len(ChangeIdKey) - 1) \o <<"a", "\n">> }

\* the messages made of at most n pieces
RECURSIVE MessagesOf(_)
MessagesOf(n) ==
    IF n = 0 THEN {<<>>}
    ELSE LET M == MessagesOf(n - 1)
         IN  M \cup {m \o q : m \in M, q \in Pieces}

Messages == MessagesOf(MaxPieces)

\* the path of the commit message file, and a path of no file
MsgPath == <<"message.txt">>
NoPath == <<"nofile">>

ArgChoices ==
    { <<>>,
      <<"commit-msg">>,
      <<"commit-msg", MsgPath>>,
      <<"commit-msg", NoPath>>,
      <<"commit-msg", MsgPath, MsgPath>>,
      <<"pre-commit", MsgPath>>,
      <<"pre-commit">>,
      <<"Commit-Msg", MsgPath>> }

\* the 20 bytes the random source may deliver
IdChoices ==
    { [i \in 1..IdLen |-> 10],
      [i \in 1..IdLen |-> (i * 37 + 134) % 256] }

\* the files of an initial state
InitialFiles(hookAt, hook, hasMsg, msg) ==
    LET D == (IF hookAt = <<>> THEN {} ELSE {hookAt})
             \cup (IF hasMsg THEN {MsgPath} ELSE {})
    IN  [q \in D |-> IF q = MsgPath
                     THEN [data |-> msg, mode |-> 420]
                     ELSE [data |-> hook, mode |-> 493]]

\* any commit message, or none, in a directory outside every repository
InitMessage ==
    /\ goos = "linux"
    /\ cwd = PathAt(1)
    /\ gitDirs = {}
    /\ \E hasMsg \in BOOLEAN :
       \E msg \in IF hasMsg THEN Messages ELSE {<<>>} :
          files = InitialFiles(<<>>, <<>>, hasMsg, msg)

\* any working directory below any repositories, the innermost of them
\* with any hook file or none, and no commit message
InitTree ==
    /\ goos \in {"linux", "windows"}
    /\ \E d \in 0..MaxDepth :
       \E levels \in SUBSET (0..d) :
          /\ cwd = PathAt(d)
          /\ gitDirs = {Join(PathAt(l), <<".git">>) : l \in levels}
          /\ \E hasHook \in IF levels = {} THEN {FALSE} ELSE BOOLEAN :
             \E hook \in IF hasHook THEN InitialHooks ELSE {<<>>} :
             \E root \in {PathAt(IF hasHook THEN Max(levels) ELSE 0)} :
             \E hookAt \in {IF hasHook THEN HookFilename(root, "commit-msg")
                            ELSE <<>>} :
                files = InitialFiles(hookAt, hook, FALSE, <<>>)

\* any working directory below any repositories, and no file yet
InitWalk ==
    /\ goos \in {"linux", "windows"}
    /\ \E d \in 0..MaxDepth :
       \E levels \in SUBSET (0..d) :
          /\ cwd = PathAt(d)
          /\ gitDirs = {Join(PathAt(l), <<".git">>) : l \in levels}
    /\ files = InitialFiles(<<>>, <<>>, FALSE, <<>>)

\* no invocation is running and none has finished
InitProcess ==
    /\ pc = "idle"
    /\ verbose = 0
    /\ hookIdx = 1
    /\ dir = <<>>
    /\ rootlen = 0
    /\ io = <<>>
    /\ pre = files
    /\ last = [n |-> 0, op |-> "none", args |-> <<>>, out |-> "none",
               io |-> <<>>, pre |-> files, post |-> files]

Init == (InitMessage \/ InitTree) /\ InitProcess

\* the trees without files, before any invocation
WalkInit == InitWalk /\ InitProcess

(***************************************************************************)
(* The actions.                                                            *)
(***************************************************************************)
\* an invocation ends: what it was given, how it ended, the file-system
\* calls it made and the files before and after it are recorded
Finish(op, args, out, fs, evs) ==
    /\ last' = [n |-> 1 - last.n, op |-> op, args |-> args, out |-> out,
                io |-> evs, pre |-> pre, post |-> fs]
    /\ files' = fs
    /\ pc' = "idle"
    /\ io' = <<>>
    /\ pre' = fs

\* installHook() is called, with the -v flag given or not
InstallHookCall ==
    /\ pc = "idle"
    /\ \E v \in {0, 1} : verbose' = v
    /\ hookIdx' = 1
    /\ pc' = "loop"
    /\ io' = <<>>
    /\ pre' = files
    /\ UNCHANGED <<goos, cwd, gitDirs, files, dir, rootlen, last>>

\* the loop over hookFiles has ended: installHook returns
InstallHookReturn ==
    /\ pc = "loop"
    /\ hookIdx > Len(hookFiles)
    /\ Finish("installHook", <<>>, "ok", files, io)
    /\ UNCHANGED <<goos, cwd, gitDirs, verbose, hookIdx, dir, rootlen>>

\* the loop body begins with a call of repoRoot, which starts at os.Getwd
RepoRootCall ==
    /\ pc = "loop"
    /\ hookIdx <= Len(hookFiles)
    /\ dir' = cwd
    /\ rootlen' = RootLen(cwd)
    /\ pc' = "repoRoot"
    /\ UNCHANGED <<goos, cwd, gitDirs, files, verbose, hookIdx, io, pre, last>>

\* repoRoot finds .git in dir and returns dir
RepoRootFound ==
    /\ pc = "repoRoot"
    /\ HasGit(dir)
    /\ pc' = "body"
    /\ UNCHANGED <<goos, cwd, gitDirs, files, verbose, hookIdx, dir, rootlen,
                   io, pre, last>>

\* repoRoot has reached the filesystem root without finding .git: dief
RepoRootDie ==
    /\ pc = "repoRoot"
    /\ ~HasGit(dir)
    /\ AtRoot(dir, rootlen)
    /\ Finish("installHook", <<>>, "fatal", files, io)
    /\ UNCHANGED <<goos, cwd, gitDirs, verbose, hookIdx, dir, rootlen>>

\* repoRoot moves one directory up
RepoRootUp ==
    /\ pc = "repoRoot"
    /\ ~HasGit(dir)
    /\ ~AtRoot(dir, rootlen)
    /\ dir' = Parent(dir)
    /\ UNCHANGED <<goos, cwd, gitDirs, files, pc, verbose, hookIdx, rootlen,
                   io, pre, last>>

\* the rest of the loop body for hookFiles[hookIdx], with dir the
\* repository root
InstallHookBody ==
    /\ pc = "body"
    /\ LET r == InstallOne(files, dir, hookFiles[hookIdx], verbose)
       IN  /\ files' = r.fs
           /\ io' = io \o r.io
    /\ hookIdx' = hookIdx + 1
    /\ pc' = "loop"
    /\ UNCHANGED <<goos, cwd, gitDirs, verbose, dir, rootlen, pre, last>>

\* hookInvoke(args) runs, the random source delivering id if asked
HookInvoke ==
    /\ pc = "idle"
    /\ \E args \in ArgChoices, id \in IdChoices :
          LET r == hookInvoke(files, args, id)
          IN  Finish("hookInvoke", args, r.out, r.fs, r.io)
    /\ UNCHANGED <<goos, cwd, gitDirs, verbose, hookIdx, dir, rootlen>>

Next ==
    \/ InstallHookCall
    \/ InstallHookReturn
    \/ RepoRootCall
    \/ RepoRootFound
    \/ RepoRootDie
    \/ RepoRootUp
    \/ InstallHookBody
    \/ HookInvoke

Spec == Init /\ [][Next]_vars

\* repoRoot runs on once called: a step of its loop that can be taken is
\* taken (a step that changes nothing is no step: the loop spins in place).
\* The walk reads no file, so it is followed from the trees without files.
RepoRootStep == RepoRootFound \/ RepoRootDie \/ RepoRootUp

FairSpec == WalkInit /\ [][Next]_vars /\ WF_vars(RepoRootStep)

(***************************************************************************)
(* What the properties speak of: the tree the behaviour began in, the      *)
(* finished invocation and the bytes of the files.                         *)
(***************************************************************************)
\* the depth of the working directory
CwdDepth == CHOOSE d \in 0..MaxDepth : PathAt(d) = cwd

\* the path of `.git` in the directory at level l, written out
GitDirAt(l) ==
    IF l = 0 THEN FsRoot \o <<".git">> ELSE PathAt(l) \o <<Separator, ".git">>

\* the levels at or above the working directory that contain `.git`
GitLevels == {l \in 0..CwdDepth : GitDirAt(l) \in gitDirs}

InRepo == GitLevels # {}

\* the innermost directory at or above the working directory with `.git`
TopLevel == PathAt(Max(GitLevels))

\* the commit-msg hook file of that repository
HookFile ==
    GitDirAt(Max(GitLevels)) \o <<Separator, "hooks", Separator, "commit-msg">>

\* the dispatcher script, rendered
Dispatcher ==
    <<"#!/bin/sh\n", "exec git-review hook-invoke ", "commit-msg", " \"$@\"\n">>

Installed == last.op = "installHook"

\* the invocation made no write and no delete
NoWrite(evs) == \A i \in DOMAIN evs : evs[i].k \notin {"write", "remove"}

\* an installHook call ends in this step
InstallEnds == pc # "idle" /\ pc' = "idle"

\* the commit-msg handler ran on the message file
Handled == last.op = "hookInvoke" /\ last.args = <<"commit-msg", MsgPath>>

\* the handler runs once more in this step, right after a run that returned
HandledAgain ==
    /\ Handled /\ last.out = "ok"
    /\ pc = "idle" /\ pc' = "idle"
    /\ last'.n # last.n
    /\ last'.op = "hookInvoke" /\ last'.args = <<"commit-msg", MsgPath>>

\* the number of lines of data that begin with "Change-Id: "
ChangeIdLines(data) ==
    Cardinality({i \in 1..Len(data) :
        /\ i = 1 \/ data[i - 1] = "\n"
        /\ i + Len(ChangeIdKey) - 1 <= Len(data)
        /\ SubSeq(data, i, i + Len(ChangeIdKey) - 1) = ChangeIdKey})

\* the bytes "\nChange-Id: " occur in data
HasNlChangeId(data) ==
    \E i \in 1..Len(data) :
        /\ data[i] = "\n"
        /\ i + Len(ChangeIdKey) <= Len(data)
        /\ SubSeq(data, i + 1, i + Len(ChangeIdKey)) = ChangeIdKey

\* the length of data without its trailing newlines
Trimmed(data) ==
    CHOOSE n \in 0..Len(data) :
        /\ n = 0 \/ data[n] # "\n"
        /\ \A k \in (n + 1)..Len(data) : data[k] = "\n"

\* the value of a lowercase hexadecimal digit, -1 for any other character
HexVal(c) ==
    IF \E v \in 0..15 : HexDigits[v + 1] = c
    THEN (CHOOSE v \in 0..15 : HexDigits[v + 1] = c)
    ELSE 0 - 1

\* h is the 40 lowercase hexadecimal digits of the 20 bytes id
IsHexOf(h, id) ==
    /\ Len(h) = 40
    /\ \A k \in 1..20 :
          /\ HexVal(h[2 * k - 1]) >= 0 /\ HexVal(h[2 * k]) >= 0
          /\ 16 * HexVal(h[2 * k - 1]) + HexVal(h[2 * k]) = id[k]

\* out is data with its trailing newlines removed, then two newlines,
\* "Change-Id: I", the 40 hexadecimal digits of id and one newline
IsWithTrailer(out, data, id) ==
    LET n == Trimmed(data) IN
    /\ Len(out) = n + 2 + 12 + 40 + 1
    /\ SubSeq(out, 1, n) = SubSeq(data, 1, n)
    /\ SubSeq(out, n + 1, n + 14)
          = <<"\n", "\n", "C", "h", "a", "n", "g", "e", "-", "I", "d", ":", " ", "I">>
    /\ IsHexOf(SubSeq(out, n + 15, n + 54), id)
    /\ out[n + 55] = "\n"


(***************************************************************************)
(* The properties.                                                         *)
(***************************************************************************)

\* C1: in a repository without a commit-msg hook file, installHook returns
\* without a fatal error and leaves the rendered dispatcher script there
\* with mode 0700; the installHook call right after it returns without a
\* fatal error too, writes and deletes nothing, and leaves the files as the
\* first call left them.
C1_InstallIdempotent ==
    /\ [](InRepo /\ Installed /\ ~Exists(last.pre, HookFile) =>
            /\ last.out = "ok"
            /\ Exists(last.post, HookFile)
            /\ last.post[HookFile] = [data |-> Dispatcher, mode |-> 448])
    /\ [][InRepo /\ Installed /\ ~Exists(last.pre, HookFile) /\ InstallEnds =>
            /\ last'.op = "installHook"
            /\ last'.out = "ok"
            /\ NoWrite(last'.io)
            /\ last'.pre = last.post
            /\ last'.post = last.post]_vars

\* a second installHook call has returned: it found the dispatcher the first
\* call wrote (mode 0700) and wrote nothing
C1_Witness ==
    /\ InRepo /\ Installed /\ last.out = "ok"
    /\ Exists(last.pre, HookFile)
    /\ last.pre[HookFile] = [data |-> Dispatcher, mode |-> 448]
    /\ NoWrite(last.io)
    /\ last.post = last.pre

\* C2: a hook file whose content is not byte for byte the old script is
\* neither written nor deleted by installHook: no step changes it, and an
\* installHook call that found it makes no write and no delete and leaves
\* the files as they were.
C2_NonDestructive ==
    /\ [](InRepo /\ Installed /\ Exists(last.pre, HookFile)
            /\ last.pre[HookFile].data # oldCommitMsgHook =>
               NoWrite(last.io) /\ last.post = last.pre)
    /\ [][InRepo /\ Exists(files, HookFile)
            /\ files[HookFile].data # oldCommitMsgHook =>
               Exists(files', HookFile) /\ files'[HookFile] = files[HookFile]]_vars

\* installHook has returned from a repository whose hook file is the old
\* script followed by one space
C2_Witness ==
    /\ InRepo /\ Installed /\ last.out = "ok"
    /\ Exists(last.pre, HookFile)
    /\ last.pre[HookFile].data = oldCommitMsgHook \o <<" ">>
    /\ last.post = last.pre

\* C3: when installHook finds the hook file byte for byte equal to the old
\* script, it deletes the file and afterwards writes it, and when it returns
\* the file holds the rendered dispatcher script.
C3_LegacyMigration ==
    InRepo /\ Installed /\ Exists(last.pre, HookFile)
      /\ last.pre[HookFile].data = oldCommitMsgHook =>
         /\ last.out = "ok"
         /\ Exists(last.post, HookFile)
         /\ last.post[HookFile].data = Dispatcher
         /\ \E i, j \in DOMAIN last.io :
               /\ i < j
               /\ last.io[i] = [k |-> "remove", p |-> HookFile]
               /\ last.io[j] = [k |-> "write", p |-> HookFile]

\* installHook has returned from a repository whose hook file was the old
\* script: the dispatcher is in its place
C3_Witness ==
    /\ InRepo /\ Installed
    /\ Exists(last.pre, HookFile)
    /\ last.pre[HookFile].data = oldCommitMsgHook
    /\ Exists(last.post, HookFile)
    /\ last.post[HookFile].data = Dispatcher

\* C4 as stated: whatever the message file held, a second run of the
\* commit-msg handler right after a first one leaves the file as the first
\* left it and writes nothing, and the file holds exactly one Change-Id line
\* more than before the first run.
C4_ExactlyOneAdded ==
    [][HandledAgain =>
          /\ last'.post = last.post
          /\ NoWrite(last'.io)
          /\ ChangeIdLines(last'.post[MsgPath].data)
                - ChangeIdLines(last.pre[MsgPath].data) = 1]_vars

\* C4, amended: a second run of the commit-msg handler right after a first
\* one leaves the file as the first left it and writes nothing; the two runs
\* have added exactly one Change-Id line when the file did not contain
\* "\nChange-Id: " before the first run, and none when it did.
C4_TrailerIdempotent ==
    [][HandledAgain =>
          /\ last'.post = last.post
          /\ NoWrite(last'.io)
          /\ ChangeIdLines(last'.post[MsgPath].data)
                - ChangeIdLines(last.pre[MsgPath].data)
             = IF HasNlChangeId(last.pre[MsgPath].data) THEN 0 ELSE 1]_vars

\* the handler has run on a message that ends with a trailer the handler
\* wrote before, and has written nothing
C4_Witness ==
    /\ Handled /\ last.out = "ok" /\ NoWrite(last.io)
    /\ LET d == last.pre[MsgPath].data
       IN  /\ Len(d) >= 55
           /\ \E id \in IdChoices :
                 IsHexOf(SubSeq(d, Len(d) - 40, Len(d) - 1), id)

\* C5: when a line of the message file, the first one included, begins with
\* "Change-Id: ", the commit-msg handler returns without modifying the file.
C5_NoDuplicateTrailers ==
    Handled /\ Exists(last.pre, MsgPath)
      /\ ChangeIdLines(last.pre[MsgPath].data) > 0 =>
         /\ last.out = "ok"
         /\ NoWrite(last.io)
         /\ last.post = last.pre

\* C6: when the message file contains "\nChange-Id: ", whatever follows it,
\* the commit-msg handler leaves the files as they were, makes no write and
\* asks for no random bytes.
C6_DetectionRobust ==
    Handled /\ Exists(last.pre, MsgPath)
      /\ HasNlChangeId(last.pre[MsgPath].data) =>
         /\ last.out = "ok"
         /\ last.post = last.pre
         /\ \A i \in DOMAIN last.io : last.io[i].k = "read"

\* the handler has run on "x\nChange-Id: abc\n"
C6_Witness ==
    /\ Handled /\ Exists(last.pre, MsgPath)
    /\ last.pre[MsgPath].data
          = <<"x", "\n">> \o ChangeIdKey \o <<"a", "b", "c", "\n">>
    /\ last.post = last.pre

\* C7: when the message file does not contain "\nChange-Id: ", the
\* commit-msg handler leaves in it the original bytes without their trailing
\* newlines, then two newlines, "Change-Id: I", the 40 lowercase hexadecimal
\* digits of the 20 random bytes and one newline, and changes no other file.
C7_FormatExact ==
    Handled /\ Exists(last.pre, MsgPath)
      /\ ~HasNlChangeId(last.pre[MsgPath].data) =>
         /\ last.out = "ok"
         /\ DOMAIN last.post = DOMAIN last.pre
         /\ \A q \in DOMAIN last.pre \ {MsgPath} : last.post[q] = last.pre[q]
         /\ \E id \in IdChoices :
               IsWithTrailer(last.post[MsgPath].data, last.pre[MsgPath].data, id)

\* the handler has run on "x\n" and left "x\n\nChange-Id: I<40 hex>\n"
C7_Witness ==
    /\ Handled /\ Exists(last.pre, MsgPath)
    /\ last.pre[MsgPath].data = <<"x", "\n">>
    /\ Len(last.post[MsgPath].data) = 56
    /\ SubSeq(last.post[MsgPath].data, 1, 4) = <<"x", "\n", "\n", "C">>

\* C8: hookInvoke with a first argument that is not a known hook name
\* returns without a fatal error, reads and writes no file and leaves the
\* files as they were.
C8_DispatchFallthrough ==
    last.op = "hookInvoke" /\ Len(last.args) > 0
      /\ last.args[1] \notin {hookFiles[i] : i \in DOMAIN hookFiles} =>
         /\ last.out = "ok"
         /\ last.io = <<>>
         /\ last.post = last.pre

\* hookInvoke has run with an unknown hook name and the path of an existing
\* message file
C8_Witness ==
    /\ last.op = "hookInvoke"
    /\ last.args = <<"pre-commit", MsgPath>>
    /\ Exists(last.pre, MsgPath)
    /\ last.out = "ok"

\* C9: with the working directory at or below a directory that contains
\* `.git`, repoRoot returns the innermost such directory, and does not end
\* with a fatal error.
C9_RootResolution ==
    /\ InRepo /\ pc = "body" => dir = TopLevel
    /\ InRepo /\ Installed => last.out # "fatal"

\* repoRoot has returned a directory above the working directory, below a
\* further repository at the filesystem root
C9_Witness ==
    /\ pc = "body"
    /\ CwdDepth >= 2
    /\ GitLevels = {0, 1}
    /\ dir = PathAt(1)

\* C10: repoRoot terminates; with no `.git` at or above the working
\* directory it returns no path and ends with a fatal error, at the
\* filesystem root.
C10_WalkTerminates ==
    /\ (pc = "repoRoot") ~> (pc # "repoRoot")
    /\ [](~InRepo => pc # "body")
    /\ [](~InRepo /\ Installed => last.out = "fatal")
    /\ [][~InRepo /\ pc = "repoRoot" /\ pc' = "idle" => dir = FsRoot]_vars

\* installHook has ended with a fatal error, called two or more levels below
\* the filesystem root and outside every repository
C10_Witness ==
    /\ ~InRepo /\ Installed /\ last.out = "fatal"
    /\ CwdDepth >= 2

=============================================================================
